---- MODULE Spec2Model ----
(***************************************************************************)
(* Model of catalog_lookup_service.py: the POST /lookup/catalog handler    *)
(* and its three stages, search_lddb_catalog_number (Locator),             *)
(* scrape_lddb_metadata (Extractor) and enhance_with_tmdb (Enricher).      *)
(*                                                                         *)
(* One behaviour is one request.  Everything the outside world supplies    *)
(* (the request body, the search page, the scraped page, the environment,  *)
(* the API's answers, network failures) is drawn with \E at the step that  *)
(* reads it.                                                               *)
(*                                                                         *)
(* Encoding of Python values:                                              *)
(*   None / JSON null        None == <<>>                                  *)
(*   an optional scalar v    Some(v) == <<v>>                              *)
(*   a list                  a sequence                                    *)
(*   a dict                  a function on its keys (strings)              *)
(*   a URL, a padded string  a sequence of text pieces, so that `in`,      *)
(*                           startswith, split, replace, unquote and strip *)
(*                           are computed on the pieces                    *)
(***************************************************************************)
EXTENDS Integers, Sequences, FiniteSets, TLC

VARIABLES
    pc,              \* position of the handler / the running stage
    request,         \* lookup_catalog: the body of the request received
    catalog_number,  \* lookup_catalog: the trimmed catalog number
    anchors,         \* search_lddb_catalog_number: soup.select("a[href]")
    idx,             \* search_lddb_catalog_number: position of the for loop
    lddb_url,        \* lookup_catalog: what the Locator returned
    metadata,        \* lookup_catalog: the metadata dict (updated in place)
    scraped,         \* the dict as scrape_lddb_metadata returned it
    results,         \* enhance_with_tmdb: search_data['results']
    movie_id,        \* enhance_with_tmdb: best_match['id']
    enhanced,        \* lookup_catalog: what the Enricher returned
    calls,           \* the stages invoked so far, in order
    fetched,         \* the movie ids whose details were requested
    exc,             \* the exception most recently raised, and where
    response,        \* the response returned by the handler
    sent             \* number of responses returned

vars == <<pc, request, catalog_number, anchors, idx, lddb_url, metadata, scraped,
          results, movie_id, enhanced, calls, fetched, exc, response, sent>>

None == <<>>
Some(v) == <<v>>

\* dict.get(key, default)
Get(d, k, default) == IF k \in DOMAIN d THEN d[k] ELSE default

----------------------------------------------------------------------------
(* Bounds of the model *)

\* the longest list of anchors on a search-results page
MaxAnchors == 2
\* the longest list of API search results
MaxResults == 2

----------------------------------------------------------------------------
(* Text pieces *)

WRAP == "/url?q="
LDDB == "https://www.lddb.com"
MARKER == "/laserdisc/"
AMP == "&"
ENC_AMP == "%26"
OTHER_HOST == "https://example.org"
PLAIN_LDDB == "http://lddb.com"
BARE_LDDB == "lddb.com"
SPACE == " "

\* "lddb.com" in href
HasDomain(href) ==
    \E i \in 1..Len(href) : href[i] \in {LDDB, PLAIN_LDDB, BARE_LDDB}

\* "/laserdisc/" in href
HasMarker(href) == \E i \in 1..Len(href) : href[i] = MARKER

\* href.startswith(prefix), prefix one piece
StartsWith(href, prefix) == Len(href) >= 1 /\ href[1] = prefix

\* href.split("&")[0]
RECURSIVE SplitAmpFirst(_)
SplitAmpFirst(href) ==
    IF href = <<>> \/ Head(href) = AMP
    THEN <<>>
    ELSE <<Head(href)>> \o SplitAmpFirst(Tail(href))

\* s.replace("/url?q=", ""): every occurrence goes
ReplaceWrap(s) == SelectSeq(s, LAMBDA t : t # WRAP)

\* urllib.parse.unquote(s)
Unquote(s) == [i \in 1..Len(s) |-> IF s[i] = ENC_AMP THEN AMP ELSE s[i]]

\* str.strip()
RECURSIVE LStrip(_)
LStrip(s) == IF s # <<>> /\ Head(s) = SPACE THEN LStrip(Tail(s)) ELSE s

RECURSIVE RStrip(_)
RStrip(s) ==
    IF s # <<>> /\ s[Len(s)] = SPACE THEN RStrip(SubSeq(s, 1, Len(s) - 1)) ELSE s

Strip(s) == RStrip(LStrip(s))

----------------------------------------------------------------------------
(* Inputs *)

\* the request bodies: no JSON at all (get_json raises), a JSON value that
\* is no object (null, a list), an object without the field, an object
\* whose field is null or a number, an object whose field is a string
Bodies ==
    {[kind |-> "no_json"], [kind |-> "non_object"],
     [kind |-> "object", has |-> FALSE],
     [kind |-> "object", has |-> TRUE, type |-> "null"],
     [kind |-> "object", has |-> TRUE, type |-> "number"]}
    \cup
    {[kind |-> "object", has |-> TRUE, type |-> "string", value |-> v] :
        v \in {<<>>, <<SPACE>>, <<SPACE, SPACE>>, <<SPACE, "PILF-1", SPACE>>}}

\* the anchor targets a search-results page may hold
Hrefs ==
    {<<WRAP, LDDB, MARKER, "07033">>,
     <<WRAP, LDDB, MARKER, "07033", AMP, "sa=U">>,
     <<WRAP, LDDB, MARKER, "a", ENC_AMP, "b", AMP, "sa=U">>,
     <<WRAP, LDDB, MARKER, WRAP, "07033">>,
     <<WRAP, OTHER_HOST, "/page", AMP, "ref=", BARE_LDDB, MARKER>>,
     <<WRAP, AMP, "ref=", BARE_LDDB, MARKER>>,
     <<LDDB, MARKER, "07033">>,
     <<PLAIN_LDDB, MARKER, "07033">>,
     <<"/search?q=", BARE_LDDB, MARKER>>,
     <<LDDB, "/search.php">>,
     <<OTHER_HOST, "/page">>}

RECURSIVE SeqsUpTo(_, _)
SeqsUpTo(S, n) ==
    IF n = 0 THEN {<<>>}
    ELSE LET shorter == SeqsUpTo(S, n - 1)
         IN shorter \cup {Append(s, x) : s \in shorter, x \in S}

Pages == SeqsUpTo(Hrefs, MaxAnchors)

----------------------------------------------------------------------------
(* The handler's responses: jsonify(...) and the status code *)

Respond(code, json) == Some([code |-> code, json |-> json])

\* an exception e raised in `where`, str(e) = msg
Raised(where, msg) == Some([where |-> where, msg |-> msg])

----------------------------------------------------------------------------
(* Locator: search_lddb_catalog_number *)

\* line 35
Qualifies(href) == HasDomain(href) /\ HasMarker(href)

\* CleanRedirect decoding before it cuts at the first `&`
CleanRedirectDecodeFirst(href) == ReplaceWrap(SplitAmpFirst(Unquote(href)))

\* lines 38-39
CleanRedirect(href) == Unquote(ReplaceWrap(SplitAmpFirst(href)))

\* LocatorFetch without the try/except of lines 19 and 50-52: the failure
\* reaches the handler's except clause
LocatorFetchUncaught ==
    /\ pc = "locate"
    /\ calls' = Append(calls, "Locator")
    /\ \/ /\ exc' = Raised("Locator", "ConnectionError")
          /\ response' = Respond(500, [error |-> "ConnectionError"])
          /\ sent' = sent + 1
          /\ pc' = "done"
          /\ UNCHANGED <<anchors, idx>>
       \/ \E page \in Pages :
             /\ anchors' = page
             /\ idx' = 1
             /\ pc' = "scan"
             /\ UNCHANGED <<exc, response, sent>>
    /\ UNCHANGED <<request, catalog_number, lddb_url, metadata, scraped,
                   results, movie_id, enhanced, fetched>>

\* lines 27-30, and 50-52 when the request or the parse raises
LocatorFetch ==
    /\ pc = "locate"
    /\ calls' = Append(calls, "Locator")
    /\ \/ /\ exc' = Raised("Locator", "ConnectionError")
          /\ lddb_url' = None
          /\ pc' = "located"
          /\ UNCHANGED <<anchors, idx>>
       \/ \E page \in Pages :
             /\ anchors' = page
             /\ idx' = 1
             /\ pc' = "scan"
             /\ UNCHANGED <<lddb_url, exc>>
    /\ UNCHANGED <<request, catalog_number, metadata, scraped, results, movie_id,
                   enhanced, fetched, response, sent>>

\* one pass of the for loop, lines 33-46
LocatorScan ==
    /\ pc = "scan"
    /\ idx <= Len(anchors)
    /\ LET href == anchors[idx]
       IN IF Qualifies(href) /\ StartsWith(href, WRAP)
          THEN lddb_url' = Some(CleanRedirect(href)) /\ pc' = "located"
                   /\ idx' = idx
          ELSE IF Qualifies(href) /\ StartsWith(href, LDDB)
          THEN lddb_url' = Some(href) /\ pc' = "located" /\ idx' = idx
          ELSE lddb_url' = lddb_url /\ pc' = "scan" /\ idx' = idx + 1
    /\ UNCHANGED <<request, catalog_number, anchors, metadata, scraped, results,
                   movie_id, enhanced, calls, fetched, exc, response, sent>>

\* line 48: the loop ran out
LocatorNone ==
    /\ pc = "scan"
    /\ idx > Len(anchors)
    /\ lddb_url' = None
    /\ pc' = "located"
    /\ UNCHANGED <<request, catalog_number, anchors, idx, metadata, scraped, results,
                   movie_id, enhanced, calls, fetched, exc, response, sent>>

----------------------------------------------------------------------------
(* Handler: lookup_catalog *)

\* `not lddb_url`: None and the empty string are falsy
UrlFalsy(url) == url = None \/ url[1] = <<>>

\* what lines 224-225 raise for a body, None when they raise nothing:
\* get_json() on a body that is no JSON, data.get on a JSON value that is
\* no object, .strip() on a field that is no string
ParseError(body) ==
    IF body.kind = "no_json" THEN Some("400 Bad Request")
    ELSE IF body.kind = "non_object" THEN Some("no attribute 'get'")
    ELSE IF body.has /\ body.type # "string" THEN Some("no attribute 'strip'")
    ELSE None

\* line 225: data.get("catalog_number", "").strip()
CatalogNumberOf(body) == Strip(IF body.has THEN body.value ELSE <<>>)

\* lines 224-230, and 274-276 when they raise
ReceiveRequest ==
    /\ pc = "start"
    /\ \E body \in Bodies :
          /\ request' = Some(body)
          /\ IF ParseError(body) # None
             THEN /\ exc' = Raised("handler", ParseError(body)[1])
                  /\ response' = Respond(500, [error |-> ParseError(body)[1]])
                  /\ sent' = sent + 1
                  /\ pc' = "done"
                  /\ UNCHANGED catalog_number
             ELSE /\ catalog_number' = CatalogNumberOf(body)
                  /\ IF CatalogNumberOf(body) = <<>>
                     THEN /\ response' =
                               Respond(400, [error |-> "Missing catalog number"])
                          /\ sent' = sent + 1
                          /\ pc' = "done"
                     ELSE /\ pc' = "locate"
                          /\ UNCHANGED <<response, sent>>
                  /\ UNCHANGED exc
    /\ UNCHANGED <<anchors, idx, lddb_url, metadata, scraped, results,
                   movie_id, enhanced, calls, fetched>>

\* AfterLocator answering a missing page with HTTP 404
AfterLocator404 ==
    /\ pc = "located"
    /\ IF UrlFalsy(lddb_url)
       THEN /\ response' =
                 Respond(404, [status |-> "not_found",
                               message |-> <<"No LDDB results found for catalog number: ">>
                                           \o catalog_number])
            /\ sent' = sent + 1
            /\ pc' = "done"
       ELSE /\ pc' = "extract"
            /\ UNCHANGED <<response, sent>>
    /\ anchors' = <<>>
    /\ idx' = 0
    /\ UNCHANGED <<request, catalog_number, lddb_url, metadata, scraped, results,
                   movie_id, enhanced, calls, fetched, exc>>

\* lines 233-238: the Locator has returned (its locals are gone)
AfterLocator ==
    /\ pc = "located"
    /\ IF UrlFalsy(lddb_url)
       THEN /\ response' =
                 Respond(200, [status |-> "not_found",
                               message |-> <<"No LDDB results found for catalog number: ">>
                                           \o catalog_number])
            /\ sent' = sent + 1
            /\ pc' = "done"
       ELSE /\ pc' = "extract"
            /\ UNCHANGED <<response, sent>>
    /\ anchors' = <<>>
    /\ idx' = 0
    /\ UNCHANGED <<request, catalog_number, lddb_url, metadata, scraped, results,
                   movie_id, enhanced, calls, fetched, exc>>

----------------------------------------------------------------------------
(* Extractor: scrape_lddb_metadata *)

\* What the parse of a page can leave in the dict of lines 67-79.  The
\* heuristics of lines 81-144 are not modelled one by one: each field is
\* drawn from the values they can give it.
Titles == {"", "Unknown Title", "Alien"}
Years == {None, Some(0), Some(1995)}
Runtimes == {None, Some(117)}
GenreLists == {<<>>, <<"Horror">>}
CoverUrls == {None, Some(<<LDDB, "/cover.jpg">>)}
Directors == {None, Some("R. Scott")}
CastLists == {<<>>, <<"S. Weaver">>}
Descriptions == {None, Some("LDDB text")}

ScrapedRecords(url) ==
    [title : Titles, year : Years, runtime : Runtimes, format : {"LaserDisc"},
     genres : GenreLists, coverUrl : CoverUrls, director : Directors,
     cast : CastLists, description : Descriptions, catalogNumber : {None},
     sourceUrl : {url}]

\* lines 56-151: fetch lddb_url and parse, or raise and return None
ScrapeLddbMetadata ==
    /\ pc = "extract"
    /\ calls' = Append(calls, "Extractor")
    /\ \/ /\ exc' = Raised("Extractor", "HTTPError")
          /\ metadata' = None
       \/ /\ \E rec \in ScrapedRecords(lddb_url[1]) : metadata' = Some(rec)
          /\ UNCHANGED exc
    /\ scraped' = metadata'
    /\ pc' = "extracted"
    /\ UNCHANGED <<request, catalog_number, anchors, idx, lddb_url, results, movie_id,
                   enhanced, fetched, response, sent>>

----------------------------------------------------------------------------
(* Enricher: enhance_with_tmdb *)

\* the text after [:10] of credits['cast']
TmdbCastLimit == 10

TMDB_IMAGES == "https://image.tmdb.org/t/p/w500"

Digits == <<"0", "1", "2", "3", "4", "5", "6", "7", "8", "9">>
DigitValue(c) == (CHOOSE d \in 1..10 : Digits[d] = c) - 1

\* int(text) of a text of digits
RECURSIVE ParseInt(_)
ParseInt(text) ==
    IF text = <<>> THEN 0
    ELSE 10 * ParseInt(SubSeq(text, 1, Len(text) - 1)) + DigitValue(text[Len(text)])

\* s[:n]
Take(s, n) == SubSeq(s, 1, IF Len(s) < n THEN Len(s) ELSE n)

\* `if year`: None and 0 are falsy
YearTruthy(year) == year # None /\ year[1] # 0

\* lines 180-182: the result has a release date and its year is `year`
YearMatches(result, year) ==
    /\ Get(result, "release_date", <<>>) # <<>>
    /\ ParseInt(Take(result["release_date"], 4)) = year[1]

\* ScanResults without the break of line 184: the last match wins
RECURSIVE ScanResultsNoBreak(_, _, _, _)
ScanResultsNoBreak(rs, i, year, best) ==
    IF i > Len(rs) THEN best
    ELSE ScanResultsNoBreak(rs, i + 1, year,
                            IF YearMatches(rs[i], year) THEN rs[i] ELSE best)

\* the for loop of lines 179-184, from position i on
RECURSIVE ScanResults(_, _, _, _)
ScanResults(rs, i, year, best) ==
    IF i > Len(rs) THEN best
    ELSE IF YearMatches(rs[i], year) THEN rs[i]
    ELSE ScanResults(rs, i + 1, year, best)

\* lines 176-184
BestMatch(rs, year) ==
    IF YearTruthy(year) /\ Len(rs) > 1
    THEN ScanResults(rs, 1, year, rs[1])
    ELSE rs[1]

\* the release dates of the API's results: none, empty, or a date
ReleaseDates ==
    {None, Some(<<>>),
     Some(<<"1", "9", "9", "0", "-", "0", "1", "-", "0", "1">>),
     Some(<<"1", "9", "9", "5", "-", "0", "6", "-", "1", "5">>)}

\* the i-th result of a result list whose release dates are `dates`
ResultAt(dates, i) ==
    IF dates[i] = None
    THEN [id |-> 100 + i]
    ELSE [id |-> 100 + i, release_date |-> dates[i][1]]

ResultLists ==
    {[i \in 1..Len(dates) |-> ResultAt(dates, i)] :
        dates \in SeqsUpTo(ReleaseDates, MaxResults)}

\* os.environ.get(name): unset, empty or set
EnvValues == {None, Some(""), Some("key")}

\* line 157
ApiKey(first, second) == IF first # None /\ first[1] # "" THEN first ELSE second

\* lines 157-184: the key, the search request, the best match
EnricherSearch ==
    /\ pc = "enrich"
    /\ calls' = Append(calls, "Enricher")
    /\ \E first \in EnvValues, second \in EnvValues :
          LET key == ApiKey(first, second)
          IN IF key = None \/ key[1] = ""
             THEN /\ enhanced' = None
                  /\ pc' = "enriched"
                  /\ UNCHANGED <<results, movie_id, exc>>
             ELSE \/ /\ exc' = Raised("Enricher", "Timeout")
                     /\ enhanced' = None
                     /\ pc' = "enriched"
                     /\ UNCHANGED <<results, movie_id>>
                  \/ \E rs \in ResultLists :
                        /\ results' = rs
                        /\ IF rs = <<>>
                           THEN /\ enhanced' = None
                                /\ pc' = "enriched"
                                /\ UNCHANGED movie_id
                           ELSE /\ movie_id' =
                                      Some(BestMatch(rs, metadata[1].year).id)
                                /\ pc' = "details"
                                /\ UNCHANGED enhanced
                        /\ UNCHANGED exc
    /\ UNCHANGED <<request, catalog_number, anchors, idx, lddb_url, metadata, scraped,
                   fetched, response, sent>>

\* the details the API may return for a movie (a field of None: the key
\* is missing or null in the JSON)
DetailsSet ==
    [overview : {None, Some(""), Some("TMDb text")},
     poster_path : {None, Some("/p.jpg")},
     runtime : {None, Some(120)},
     genres : {<<>>, <<[name |-> "Science Fiction"]>>},
     crew : {<<>>, <<[name |-> "G. Carroll", job |-> "Producer"]>>,
             <<[name |-> "G. Carroll", job |-> "Producer"],
               [name |-> "Ridley Scott", job |-> "Director"]>>},
     cast : {<<>>, <<[name |-> "Sigourney Weaver"]>>}]

\* line 206: next(c['name'] for c in crew if c['job'] == 'Director', None)
FirstDirector(crew) ==
    IF \E i \in 1..Len(crew) : crew[i].job = "Director"
    THEN Some(crew[CHOOSE i \in 1..Len(crew) :
                     /\ crew[i].job = "Director"
                     /\ \A j \in 1..(i - 1) : crew[j].job # "Director"].name)
    ELSE None

Names(list) == [i \in 1..Len(list) |-> list[i].name]

\* lines 195-211: the enhanced dict
Enhanced(id, details) ==
    LET base ==
            [tmdbId |-> id,
             description |-> IF details.overview = None THEN Some("")
                             ELSE details.overview,
             posterUrl |-> IF details.poster_path # None
                                /\ details.poster_path[1] # ""
                           THEN Some(<<TMDB_IMAGES, details.poster_path[1]>>)
                           ELSE None,
             runtime |-> details.runtime,
             genres |-> Names(details.genres)]
        director == FirstDirector(details.crew)
        withDirector ==
            IF director # None /\ director[1] # ""
            THEN base @@ ("director" :> director) ELSE base
    IN IF details.cast # <<>>
       THEN withDirector @@ ("actors" :> Names(Take(details.cast, TmdbCastLimit)))
       ELSE withDirector

\* lines 187-218: the details request, or raise and return None
EnricherDetails ==
    /\ pc = "details"
    /\ fetched' = Append(fetched, movie_id[1])
    /\ \/ /\ exc' = Raised("Enricher", "HTTPError")
          /\ enhanced' = None
       \/ /\ \E details \in DetailsSet :
                enhanced' = Some(Enhanced(movie_id[1], details))
          /\ UNCHANGED exc
    /\ results' = <<>>
    /\ pc' = "enriched"
    /\ UNCHANGED <<request, catalog_number, anchors, idx, lddb_url, metadata, scraped,
                   movie_id, calls, response, sent>>

----------------------------------------------------------------------------
(* Handler, continued *)

\* OrUrl as .get('posterUrl', default) would give it: a null poster stays
OrUrlKeyOnly(a, b) == a

\* a or b, for URLs
OrUrl(a, b) == IF a # None /\ a[1] # <<>> THEN a ELSE b

\* the dict of lines 254-263
Update(m, e) ==
    [description |-> Get(e, "description", Get(m, "description", None)),
     posterUrl |-> OrUrl(Get(e, "posterUrl", None), Get(m, "coverUrl", None)),
     tmdbId |-> Get(e, "tmdbId", None),
     director |-> Get(e, "director", Get(m, "director", None)),
     actors |-> Get(e, "actors", Get(m, "cast", <<>>)),
     genres |-> Get(e, "genres", Get(m, "genres", <<>>)),
     runtime |-> Get(e, "runtime", Get(m, "runtime", None))]

\* metadata.update(...)
Merged(m, e) == Update(m, e) @@ m

\* WantsEnrichment without the test of the year
WantsEnrichmentTitleOnly(m) == m.title # ""

\* line 249
WantsEnrichment(m) == m.title # "" /\ YearTruthy(m.year)

\* lines 268-272
Success(m) ==
    Respond(200, [status |-> "success", data |-> m,
                  catalog_number |-> catalog_number])

\* lines 241-249 and 268-272: the Extractor has returned
AfterExtractor ==
    /\ pc = "extracted"
    /\ IF metadata = None
       THEN /\ response' =
                 Respond(200, [status |-> "error",
                               message |-> "Found LDDB page but could not extract metadata"])
            /\ sent' = sent + 1
            /\ pc' = "done"
       ELSE IF WantsEnrichment(metadata[1])
       THEN /\ pc' = "enrich"
            /\ UNCHANGED <<response, sent>>
       ELSE /\ response' = Success(metadata[1])
            /\ sent' = sent + 1
            /\ pc' = "done"
    /\ UNCHANGED <<request, catalog_number, anchors, idx, lddb_url, metadata, scraped,
                   results, movie_id, enhanced, calls, fetched, exc>>

\* AfterEnricher without the test of line 252: the update is always made
AfterEnricherAlwaysUpdates ==
    /\ pc = "enriched"
    /\ metadata' = Some(Merged(metadata[1],
                               IF enhanced # None THEN enhanced[1] ELSE <<>>))
    /\ response' = Success(metadata'[1])
    /\ sent' = sent + 1
    /\ pc' = "done"
    /\ UNCHANGED <<request, catalog_number, anchors, idx, lddb_url, scraped,
                   results, movie_id, enhanced, calls, fetched, exc>>

\* lines 251-272: the Enricher has returned.  enhance_with_tmdb catches
\* every exception itself and the update raises none, so the except clause
\* of lines 265-266 is never entered.
AfterEnricher ==
    /\ pc = "enriched"
    /\ metadata' = IF enhanced # None
                   THEN Some(Merged(metadata[1], enhanced[1]))
                   ELSE metadata
    /\ response' = Success(metadata'[1])
    /\ sent' = sent + 1
    /\ pc' = "done"
    /\ UNCHANGED <<request, catalog_number, anchors, idx, lddb_url, scraped, results,
                   movie_id, enhanced, calls, fetched, exc>>

----------------------------------------------------------------------------

Init ==
    /\ pc = "start"
    /\ request = None
    /\ catalog_number = <<>>
    /\ anchors = <<>>
    /\ idx = 0
    /\ lddb_url = None
    /\ metadata = None
    /\ scraped = None
    /\ results = <<>>
    /\ movie_id = None
    /\ enhanced = None
    /\ calls = <<>>
    /\ fetched = <<>>
    /\ exc = None
    /\ response = None
    /\ sent = 0

Next ==
    \/ ReceiveRequest
    \/ LocatorFetch
    \/ LocatorScan
    \/ LocatorNone
    \/ AfterLocator
    \/ ScrapeLddbMetadata
    \/ AfterExtractor
    \/ EnricherSearch
    \/ EnricherDetails
    \/ AfterEnricher

Spec == Init /\ [][Next]_vars


----------------------------------------------------------------------------
(* Reading a finished request *)

Done == pc = "done"

Json == response[1].json

Succeeded == response # None /\ response[1].code = 200
                 /\ "status" \in DOMAIN Json /\ Json.status = "success"

Stages == <<"Locator", "Extractor", "Enricher">>

Invoked(stage) == \E i \in 1..Len(calls) : calls[i] = stage

----------------------------------------------------------------------------
(* C1 *)

\* every piece of the text is white space
AllSpace(text) == \A i \in 1..Len(text) : text[i] = SPACE

\* the body has no catalog_number field, or the field is a string that is
\* empty after trimming
NoCatalogNumber(body) ==
    \/ body.kind # "object"
    \/ ~body.has
    \/ body.type = "string" /\ AllSpace(body.value)

\* C1: a request whose body has no catalog_number field, or whose
\* catalog_number is empty after trimming, is answered HTTP 400 with an
\* `error` field, and no stage is invoked.
C1_MissingNumberIs400 ==
    (Done /\ NoCatalogNumber(request[1])) =>
        /\ response[1].code = 400
        /\ "error" \in DOMAIN Json
        /\ calls = <<>>

----------------------------------------------------------------------------
(* C3 *)

\* C3: when the Locator returns no URL (no anchor matched, or its request
\* failed) for a non-empty catalog number, the answer is HTTP 200 with
\* status "not_found" and neither Extractor nor Enricher is invoked.
C3_NoUrlIsNotFound ==
    (Invoked("Locator") /\ pc \notin {"locate", "scan"} /\ lddb_url = None) =>
        /\ catalog_number # <<>>
        /\ calls = <<"Locator">>
        /\ Done => /\ response # None
                   /\ response[1].code = 200
                   /\ DOMAIN Json = {"status", "message"}
                   /\ Json.status = "not_found"

\* a request answered not_found after the Locator's request failed
C3_Witness ==
    /\ Done
    /\ lddb_url = None
    /\ exc # None /\ exc[1].where = "Locator"
    /\ Json.status = "not_found"

----------------------------------------------------------------------------
(* C4 *)

\* C4: the stages run in the order Locator, Extractor, Enricher, each at
\* most once; the Extractor only after the Locator returned a URL, the
\* Enricher only after the Extractor returned a record with a title and a
\* year; a response is sent only when no stage is still running.
C4_StagesInOrderOnce ==
    /\ calls = SubSeq(Stages, 1, Len(calls))
    /\ Len(calls) <= 3
    /\ Invoked("Extractor") => lddb_url # None /\ lddb_url[1] # <<>>
    /\ Invoked("Enricher") =>
          /\ scraped # None
          /\ scraped[1].title # ""
          /\ scraped[1].year \notin {None, Some(0)}
    /\ response # None => Done
    /\ Done => pc \notin {"scan", "details"} /\ response # None

\* a request answered with success after all three stages ran
C4_Witness ==
    /\ Done
    /\ Succeeded
    /\ calls = Stages
    /\ enhanced # None

----------------------------------------------------------------------------
(* C5 *)

\* the five documented shapes of a response
Shapes ==
    {<<200, {"status", "data", "catalog_number"}, "success">>,
     <<200, {"status", "message"}, "not_found">>,
     <<200, {"status", "message"}, "error">>,
     <<400, {"error"}, "">>,
     <<500, {"error"}, "">>}

ShapeOf(r) ==
    <<r.code, DOMAIN r.json,
      IF "status" \in DOMAIN r.json THEN r.json.status ELSE "">>

\* C5: a request ends with exactly one response, of one of the five
\* documented shapes; HTTP 500 is produced only for an exception raised in
\* the handler outside the stages, and carries its message; a failure
\* inside a stage never yields HTTP 500.
C5_OneResponseOfFiveShapes ==
    /\ sent <= 1
    /\ Done <=> sent = 1
    /\ Done \/ ENABLED Next
    /\ response # None <=> sent = 1
    /\ response # None => ShapeOf(response[1]) \in Shapes
    /\ (response # None /\ response[1].code = 500) =>
          /\ exc # None
          /\ exc[1].where = "handler"
          /\ Json.error = exc[1].msg
          /\ calls = <<>>
    /\ (exc # None /\ exc[1].where # "handler" /\ Done) =>
          response[1].code = 200

\* a request answered HTTP 500 with the exception's message
C5_Witness500 ==
    /\ Done
    /\ response[1].code = 500
    /\ exc # None /\ Json.error = exc[1].msg

----------------------------------------------------------------------------
(* C6 *)

\* C6: when the Enricher yields nothing or is not invoked, the success
\* response's data is exactly the record the Extractor returned.
C6_NoEnrichmentKeepsRecord ==
    (Succeeded /\ enhanced = None) =>
        /\ scraped # None
        /\ Json.data = scraped[1]
        /\ DOMAIN Json.data = DOMAIN scraped[1]

\* a success after the Enricher was invoked and failed in an API call
C6_Witness ==
    /\ Succeeded
    /\ Invoked("Enricher")
    /\ enhanced = None
    /\ exc # None /\ exc[1].where = "Enricher"

----------------------------------------------------------------------------
(* C7 *)

\* C7: with an enrichment record, the merged posterUrl is the enrichment's
\* poster URL if it has one, otherwise the Extractor's coverUrl; it is null
\* exactly when both are absent.
C7_PosterPrecedence ==
    (Succeeded /\ enhanced # None) =>
        /\ "posterUrl" \in DOMAIN Json.data
        /\ Json.data.posterUrl =
              IF enhanced[1].posterUrl # None THEN enhanced[1].posterUrl
              ELSE scraped[1].coverUrl
        /\ Json.data.posterUrl = None <=>
              (enhanced[1].posterUrl = None /\ scraped[1].coverUrl = None)

\* a merge where the enrichment has no poster and the Extractor has a cover
C7_Witness ==
    /\ Succeeded
    /\ enhanced # None
    /\ enhanced[1].posterUrl = None
    /\ scraped[1].coverUrl # None
    /\ Json.data.posterUrl = scraped[1].coverUrl


----------------------------------------------------------------------------
(* C2 *)

\* the enrichment record supplies a value for the field: the key is there
\* and its value is neither null nor empty
SuppliesText(e, field) ==
    field \in DOMAIN e /\ e[field] # None /\ e[field] # Some("")

\* the same text, null and the empty text both being "no text"
SameText(a, b) == a = b \/ ({a, b} \subseteq {None, Some("")})

SuppliesNumber(e, field) == field \in DOMAIN e /\ e[field] # None

SuppliesList(e, field) == field \in DOMAIN e /\ e[field] # <<>>

\* C2: with an enrichment record, each of description, director,
\* actors/cast, genres and runtime of the merged record is the enrichment's
\* value if the enrichment supplies one (not absent, not empty), and
\* otherwise the value the Extractor produced.
C2_MergeKeepsUnsupplied ==
    (Succeeded /\ enhanced # None) =>
        LET e == enhanced[1]
            x == scraped[1]
            m == Json.data
        IN /\ SameText(m.description,
                       IF SuppliesText(e, "description") THEN e.description
                       ELSE x.description)
           /\ m.director =
                 IF SuppliesText(e, "director") THEN e.director ELSE x.director
           /\ m.actors = IF SuppliesList(e, "actors") THEN e.actors ELSE x.cast
           /\ m.genres = IF SuppliesList(e, "genres") THEN e.genres ELSE x.genres
           /\ m.runtime =
                 IF SuppliesNumber(e, "runtime") THEN e.runtime ELSE x.runtime

----------------------------------------------------------------------------
(* C8 *)

\* the text of a year, as a release date starts with it
YearText(y) ==
    <<Digits[((y \div 1000) % 10) + 1], Digits[((y \div 100) % 10) + 1],
      Digits[((y \div 10) % 10) + 1], Digits[(y % 10) + 1]>>

\* the positions of the results released in year y
ReleasedIn(rs, y) ==
    {i \in 1..Len(rs) :
        /\ "release_date" \in DOMAIN rs[i]
        /\ Len(rs[i].release_date) >= 4
        /\ SubSeq(rs[i].release_date, 1, 4) = YearText(y)}

Least(S) == CHOOSE i \in S : \A j \in S : i <= j

\* the position the claim selects
Selected(rs, year) ==
    IF year # None /\ Len(rs) > 1 /\ ReleasedIn(rs, year[1]) # {}
    THEN Least(ReleasedIn(rs, year[1]))
    ELSE 1

\* C8: for a non-empty list of results the Enricher requests the details of
\* the first result, except that with a year and more than one result it
\* requests those of the first result released in that year, if any.
C8_BestMatchByYear ==
    /\ pc = "details" =>
          /\ results # <<>>
          /\ movie_id = Some(results[Selected(results, scraped[1].year)].id)
    /\ fetched # <<>> => fetched = <<movie_id[1]>>

\* the year picks a result that is not the first, and its details are asked
C8_Witness ==
    /\ pc = "details"
    /\ Len(results) > 1
    /\ Selected(results, scraped[1].year) > 1
    /\ movie_id = Some(results[Selected(results, scraped[1].year)].id)

----------------------------------------------------------------------------
(* C9 *)

\* the anchor is one the Locator can use: its target holds the domain and
\* the marker, and is a redirect wrapper or fully qualified to the domain
Usable(href) ==
    /\ \E i \in 1..Len(href) : href[i] \in {LDDB, PLAIN_LDDB, BARE_LDDB}
    /\ \E i \in 1..Len(href) : href[i] = MARKER
    /\ href[1] \in {WRAP, LDDB}

\* the position of the first `&` of the target, past its end if none
FirstAmp(href) ==
    IF \E i \in 1..Len(href) : href[i] = AMP
    THEN Least({i \in 1..Len(href) : href[i] = AMP})
    ELSE Len(href) + 1

\* a redirect wrapper's target: what follows the wrapper's prefix, up to
\* the first `&`, without the wrapper's marker, percent-decoded
Unwrapped(href) ==
    LET inner == SelectSeq(SubSeq(href, 2, FirstAmp(href) - 1),
                           LAMBDA t : t # WRAP)
    IN [i \in 1..Len(inner) |-> IF inner[i] = ENC_AMP THEN AMP ELSE inner[i]]

----------------------------------------------------------------------------
(* C10 *)

\* the URL is on the external domain and holds the marker
OnLddb(url) ==
    /\ url # <<>>
    /\ url[1] \in {LDDB, PLAIN_LDDB}
    /\ \E i \in 1..Len(url) : url[i] = MARKER

\* C10: every URL the Locator returns (the empty text, which the handler
\* takes for "not found", left aside), and so every URL the Extractor
\* fetches and reports as sourceUrl, is on the external domain and holds
\* the marker.
C10_UrlOnDomain ==
    /\ (lddb_url # None /\ lddb_url[1] # <<>>) => OnLddb(lddb_url[1])
    /\ scraped # None => OnLddb(scraped[1].sourceUrl)

====
